---- MODULE Spec2Model ----
(***************************************************************************)
(* Model of the note graph / search subsystem of                           *)
(* src/multimedia/obsidian_server.py: the graph builder (generate_graph),  *)
(* its scoped traversal (generate_graph.traverse) and the ranked search    *)
(* (search_notes), as request handlers over a vault of note files.         *)
(*                                                                         *)
(* Text is a sequence of one-character strings, so that the pattern match  *)
(* that extracts [[...]] references, the alias split, strip(), lower() and *)
(* Path.stem are computed as the code computes them.                       *)
(***************************************************************************)
EXTENDS Integers, Sequences, FiniteSets, TLC

\* vault and dirs are the files and the directories on disk, resp is the response
\* a handler has returned and the server has not yet sent, call is the activation
\* of a handler that is under way (its locals and its call stack), and last is
\* the response sent last, remembered with the vault it was computed from.
VARIABLES vault, dirs, resp, call, last

vars == <<vault, dirs, resp, call, last>>

(***************************************************************************)
(* Bounds of the model.                                                    *)
(***************************************************************************)
\* Largest depth a graph request asks for.
MaxDepth == 4
\* Largest number of files in a vault of the build specification.
MaxBuildFiles == 3

----------------------------------------------------------------------------
(***************************************************************************)
(* Text helpers.                                                           *)
(***************************************************************************)
Min(a, b) == IF a < b THEN a ELSE b
Max(a, b) == IF a > b THEN a ELSE b

Range(s) == {s[i] : i \in 1..Len(s)}

\* `sub in s` of Python strings.
Contains(s, sub) ==
    \E i \in 0..(Len(s) - Len(sub)) : SubSeq(s, i + 1, i + Len(sub)) = sub

\* Least index in lo..hi satisfying the test, 0 when there is none.
RECURSIVE FirstIndex(_, _, _, _)
FirstIndex(s, c, lo, hi) ==
    IF lo > hi THEN 0
    ELSE IF s[lo] = c THEN lo
    ELSE FirstIndex(s, c, lo + 1, hi)

RECURSIVE LastIndex(_, _, _)
LastIndex(s, c, hi) ==
    IF hi < 1 THEN 0
    ELSE IF s[hi] = c THEN hi
    ELSE LastIndex(s, c, hi - 1)

\* str.strip(): leading and trailing whitespace removed.
IsSpace(c) == c \in {" ", "\n", "\t"}

RECURSIVE LStrip(_)
LStrip(s) == IF s # <<>> /\ IsSpace(s[1]) THEN LStrip(Tail(s)) ELSE s

RECURSIVE RStrip(_)
RStrip(s) ==
    IF s # <<>> /\ IsSpace(s[Len(s)]) THEN RStrip(SubSeq(s, 1, Len(s) - 1)) ELSE s

strip(s) == RStrip(LStrip(s))

\* str.split('|')[0]: the text before the first '|'.
split_first(s) ==
    LET p == FirstIndex(s, "|", 1, Len(s))
    IN  IF p = 0 THEN s ELSE SubSeq(s, 1, p - 1)

\* str.endswith('.md')
endswith_md(file) ==
    /\ Len(file) >= 3
    /\ SubSeq(file, Len(file) - 2, Len(file)) = <<".", "m", "d">>

\* pathlib's PurePath.stem: the name without its last suffix; a name whose only
\* dot is its first or its last character has no suffix.
stem(file) ==
    LET p == LastIndex(file, ".", Len(file))
    IN  IF 1 < p /\ p < Len(file) THEN SubSeq(file, 1, p - 1) ELSE file

----------------------------------------------------------------------------
(***************************************************************************)
(* re.findall(r'\[\[(.*?)\]\]', content): the captured groups of the       *)
(* leftmost, non-overlapping matches. The group is lazy, so a match closes *)
(* at the first "]]" after its "[["; '.' does not match a line break.      *)
(***************************************************************************)
RECURSIVE CloseAt(_, _)
CloseAt(s, j) ==
    IF j + 1 > Len(s) THEN 0
    ELSE IF s[j] = "]" /\ s[j + 1] = "]" THEN j
    ELSE IF s[j] = "\n" THEN 0
    ELSE CloseAt(s, j + 1)

RECURSIVE FindLinksFrom(_, _)
FindLinksFrom(s, i) ==
    IF i + 3 > Len(s) THEN <<>>
    ELSE IF s[i] = "[" /\ s[i + 1] = "["
         THEN LET j == CloseAt(s, i + 2)
              IN  IF j = 0 THEN FindLinksFrom(s, i + 1)
                  ELSE <<SubSeq(s, i + 2, j - 1)>> \o FindLinksFrom(s, j + 2)
         ELSE FindLinksFrom(s, i + 1)

find_links(content) == FindLinksFrom(content, 1)

\* As clean_link, but what follows a '|' stays in the target.
clean_link_keeps_alias(link) == strip(link)

\* link.split('|')[0].strip()
clean_link(link) == strip(split_first(link))

----------------------------------------------------------------------------
(***************************************************************************)
(* The vault: the files under OBSIDIAN_VAULT_PATH in the order os.walk     *)
(* yields them. A file is                                                  *)
(*   dir      the path of the directory os.walk reports it in,            *)
(*   file     its name, with extension,                                    *)
(*   st       "ok", "undecodable" (f.read() raises) or "badyaml"           *)
(*            (frontmatter.loads raises),                                  *)
(*   content  its raw text,                                                *)
(*   tagsKind what metadata holds under 'tags': "absent", "list", or       *)
(*            "scalar" (a value that cannot be iterated, e.g. a number),   *)
(*   tags     the tag list when tagsKind = "list".                         *)
(***************************************************************************)
\* The two configured paths, shortened: only their being different paths, neither
\* inside the other, matters to the code.
OBSIDIAN_VAULT_PATH == <<"/", "v">>
EXCLUDED_VAULT == <<"/", "X">>

\* Path(a) / b, and the f"{a}/{b}" of ensure_vault_exists.
Join(a, b) == a \o <<"/">> \o b

\* EXCLUDED_VAULT in str(path)
is_excluded_path(path) == Contains(path, EXCLUDED_VAULT)

VAULT_SUBDIRS ==
    {<<"T", "e", "m", "p", "l", "a", "t", "e", "s">>,
     <<"D", "a", "i", "l", "y", " ", "N", "o", "t", "e", "s">>,
     <<"P", "r", "o", "j", "e", "c", "t", "s">>,
     <<"A", "r", "c", "h", "i", "v", "e">>}

\* ds is the set of directories that exist.
ensure_vault_exists(ds) ==
    IF OBSIDIAN_VAULT_PATH \notin ds
    THEN ds \cup {OBSIDIAN_VAULT_PATH}
            \cup {Join(OBSIDIAN_VAULT_PATH, d) : d \in VAULT_SUBDIRS}
    ELSE ds

\* post.metadata.get('tags', [])
metadata_tags(f) == IF f.tagsKind = "absent" THEN <<>> ELSE f.tags

\* str(Path(root) / file)
file_path(f) == Join(f.dir, f.file)

----------------------------------------------------------------------------
(***************************************************************************)
(* A dict keeps its keys in insertion order; assigning to an existing key  *)
(* keeps the key's place. nodes is a sequence of node records, unique ids. *)
(***************************************************************************)
Keys(d) == {d[i].id : i \in 1..Len(d)}

HasKey(d, k) == k \in Keys(d)

Get(d, k) == d[CHOOSE i \in 1..Len(d) : d[i].id = k]

DictSet(d, v) ==
    IF HasKey(d, v.id)
    THEN [i \in 1..Len(d) |-> IF d[i].id = v.id THEN v ELSE d[i]]
    ELSE Append(d, v)

NoteNode(f) ==
    [id |-> stem(f.file), label |-> stem(f.file), path |-> file_path(f),
     tags |-> metadata_tags(f), size |-> Len(f.content), type |-> "note"]

TagNode(tag) ==
    [id |-> tag, label |-> <<"#">> \o tag, path |-> <<>>, tags |-> <<>>,
     size |-> 1, type |-> "tag"]

Edge(s, t, k) == [source |-> s, target |-> t, type |-> k]

----------------------------------------------------------------------------
(***************************************************************************)
(* generate_graph, lines 211-270: the scan. g is [nodes, edges].           *)
(***************************************************************************)
\* As add_links, but a reference the edge list already holds adds no edge.
RECURSIVE add_links_dedup(_, _, _)
add_links_dedup(edges, note_name, links) ==
    IF links = <<>> THEN edges
    ELSE LET e == Edge(note_name, clean_link(Head(links)), "link")
         IN  add_links_dedup(IF e \in Range(edges) THEN edges ELSE Append(edges, e),
                             note_name, Tail(links))

RECURSIVE add_links(_, _, _)
add_links(edges, note_name, links) ==
    IF links = <<>> THEN edges
    ELSE add_links(Append(edges, Edge(note_name, clean_link(Head(links)), "link")),
                   note_name, Tail(links))

\* As add_tags, but the Tag node is stored whether or not the key is taken.
RECURSIVE add_tags_overwriting(_, _, _)
add_tags_overwriting(g, note_name, tags) ==
    IF tags = <<>> THEN g
    ELSE add_tags_overwriting(
             [nodes |-> DictSet(g.nodes, TagNode(Head(tags))),
              edges |-> Append(g.edges, Edge(note_name, Head(tags), "tag"))],
             note_name, Tail(tags))

RECURSIVE add_tags(_, _, _)
add_tags(g, note_name, tags) ==
    IF tags = <<>> THEN g
    ELSE LET tag == Head(tags)
             ns  == IF HasKey(g.nodes, tag) THEN g.nodes
                    ELSE Append(g.nodes, TagNode(tag))
         IN  add_tags([nodes |-> ns,
                       edges |-> Append(g.edges, Edge(note_name, tag, "tag"))],
                      note_name, Tail(tags))

\* As scan_file, but a Document node has its tag list only when tag nodes are
\* asked for.
scan_file_tags_if_asked(g, f, include_tags) ==
    IF f.st # "ok" THEN g
    ELSE LET note_name == stem(f.file)
             node == IF include_tags THEN NoteNode(f)
                     ELSE [NoteNode(f) EXCEPT !.tags = <<>>]
             g1 == [nodes |-> DictSet(g.nodes, node),
                    edges |-> add_links(g.edges, note_name, find_links(f.content))]
         IN  IF ~include_tags \/ f.tagsKind = "scalar" THEN g1
             ELSE add_tags(g1, note_name, metadata_tags(f))

\* The body of the per-file try block; an exception leaves what was done before it.
scan_file(g, f, include_tags) ==
    IF f.st # "ok" THEN g
    ELSE LET note_name == stem(f.file)
             g1 == [nodes |-> DictSet(g.nodes, NoteNode(f)),
                    edges |-> add_links(g.edges, note_name, find_links(f.content))]
         IN  IF ~include_tags \/ f.tagsKind = "scalar" THEN g1
             ELSE add_tags(g1, note_name, metadata_tags(f))

RECURSIVE build_graph(_, _, _, _)
build_graph(v, i, include_tags, g) ==
    IF i > Len(v) THEN g
    ELSE build_graph(v, i + 1, include_tags,
                     IF is_excluded_path(v[i].dir) \/ ~endswith_md(v[i].file)
                     THEN g
                     ELSE scan_file(g, v[i], include_tags))

\* As EmptyGraph, but the node map and the edge list of the graph response sent
\* last are still there when the next request starts.
carried_graph ==
    IF last.kind = "sent" /\ last.resp.kind = "graph"
    THEN [nodes |-> last.resp.nodes, edges |-> last.resp.edges]
    ELSE [nodes |-> <<>>, edges |-> <<>>]

\* nodes = {}; edges = []
EmptyGraph == [nodes |-> <<>>, edges |-> <<>>]

----------------------------------------------------------------------------
(***************************************************************************)
(* generate_graph.traverse, lines 277-289. st is [nodes, edges]: the       *)
(* filtered_nodes dict and the filtered_edges list the closure mutates.    *)
(***************************************************************************)
RECURSIVE traverse(_, _, _, _)
RECURSIVE traverse_edges(_, _, _, _, _)

traverse(g, node, depth, st) ==
    IF depth <= 0 \/ ~HasKey(g.nodes, node) THEN st
    ELSE traverse_edges(g, node, depth, 1,
                        [st EXCEPT !.nodes = DictSet(@, Get(g.nodes, node))])

traverse_edges(g, node, depth, i, st) ==
    IF i > Len(g.edges) THEN st
    ELSE LET edge == g.edges[i]
         IN  IF edge.source = node /\ ~HasKey(st.nodes, edge.target)
             THEN traverse_edges(g, node, depth, i + 1,
                      traverse(g, edge.target, depth - 1,
                               [st EXCEPT !.edges = Append(@, edge)]))
             ELSE IF edge.target = node /\ ~HasKey(st.nodes, edge.source)
             THEN traverse_edges(g, node, depth, i + 1,
                      traverse(g, edge.source, depth - 1,
                               [st EXCEPT !.edges = Append(@, edge)]))
             ELSE traverse_edges(g, node, depth, i + 1, st)

\* A request's node is None, or a string (possibly the empty one).
None == [some |-> FALSE, val |-> <<>>]
Some(x) == [some |-> TRUE, val |-> x]

\* `request.node and request.node in nodes`
scoped(g, request) ==
    /\ request.node.some
    /\ request.node.val # <<>>
    /\ HasKey(g.nodes, request.node.val)

filter_graph(g, request) ==
    IF scoped(g, request)
    THEN traverse(g, request.node.val, request.depth, EmptyGraph)
    ELSE g

CountType(nodes, t) == Cardinality({i \in 1..Len(nodes) : nodes[i].type = t})

\* As generate_graph, but the stats are counted before the result is scoped.
generate_graph_stats_of_scan(v, request) ==
    LET full == build_graph(v, 1, request.include_tags, EmptyGraph)
        g    == filter_graph(full, request)
    IN  [kind |-> "graph", request |-> request,
         nodes |-> g.nodes, edges |-> g.edges,
         stats |-> [total_notes |-> CountType(full.nodes, "note"),
                    total_tags  |-> CountType(full.nodes, "tag"),
                    total_links |-> Len(full.edges)]]

generate_graph(v, request) ==
    LET g == filter_graph(build_graph(v, 1, request.include_tags, EmptyGraph),
                          request)
    IN  [kind |-> "graph", request |-> request,
         nodes |-> g.nodes, edges |-> g.edges,
         stats |-> [total_notes |-> CountType(g.nodes, "note"),
                    total_tags  |-> CountType(g.nodes, "tag"),
                    total_links |-> Len(g.edges)]]

----------------------------------------------------------------------------
(***************************************************************************)
(* Inputs of the traversal specification.                                  *)
(***************************************************************************)
Link(t) == <<"[", "[">> \o t \o <<"]", "]">>

\* The notes a traversal vault may hold, in scan order: it holds the first n.
NoteNames == <<(<<"A">>), (<<"B">>), (<<"C">>)>>

MdFile(name) == name \o <<".", "m", "d">>

TagNames == {<<"x">>, <<"y">>}

\* A note of the traversal vaults holds no reference or one, and no tag or one.
TravBodies(n) == {<<>>} \cup {Link(NoteNames[i]) : i \in 1..n}
TravTags == {<<>>} \cup {<<t>> : t \in TagNames}

TravFile(i, body, tags) ==
    [dir |-> OBSIDIAN_VAULT_PATH, file |-> MdFile(NoteNames[i]), st |-> "ok",
     content |-> body, tagsKind |-> "list", tags |-> tags]

TravVaults ==
    UNION {{[i \in 1..n |-> TravFile(i, c[i][1], c[i][2])] :
               c \in [1..n -> TravBodies(n) \X TravTags]} : n \in 0..Len(NoteNames)}

TravRoots ==
    {None, Some(<<>>), Some(<<"Z">>)}
        \cup {Some(NoteNames[i]) : i \in 1..Len(NoteNames)}
        \cup {Some(t) : t \in TagNames}

GraphRequests(roots, depths) ==
    [node : roots, depth : depths, include_tags : BOOLEAN]

----------------------------------------------------------------------------
NoResp == [kind |-> "none"]

\* No handler is under way; no response was sent yet.
NoCall == [kind |-> "idle"]
NoLast == [kind |-> "none"]

DirsOf(v) == {OBSIDIAN_VAULT_PATH} \cup {v[i].dir : i \in 1..Len(v)}

\* POST /api/graph/generate
GenerateGraph(requests) ==
    /\ resp = NoResp
    /\ call = NoCall
    /\ \E request \in requests :
          /\ dirs' = ensure_vault_exists(dirs)
          /\ resp' = generate_graph(vault, request)
    /\ UNCHANGED <<vault, call, last>>

\* The response leaves the handler; the server holds nothing of the request.
Deliver ==
    /\ resp # NoResp
    /\ resp' = NoResp
    /\ UNCHANGED <<vault, dirs, call, last>>

Init ==
    /\ vault \in TravVaults
    /\ dirs \in {DirsOf(vault)} \cup (IF vault = <<>> THEN {{}} ELSE {})
    /\ resp = NoResp
    /\ call = NoCall
    /\ last = NoLast

Next ==
    \/ GenerateGraph(GraphRequests(TravRoots, 0..MaxDepth))
    \/ Deliver

Spec == Init /\ [][Next]_vars

----------------------------------------------------------------------------
(***************************************************************************)
(* Inputs of the build specification: vaults whose files differ in         *)
(* directory, extension, readability, references and tags.                 *)
(***************************************************************************)
File(dir, file, st, content, tagsKind, tags) ==
    [dir |-> dir, file |-> file, st |-> st, content |-> content,
     tagsKind |-> tagsKind, tags |-> tags]

\* A folder of the vault, and a folder of the vault whose path holds the
\* excluded path.
SUB_DIR == Join(OBSIDIAN_VAULT_PATH, <<"s">>)
EXCL_DIR == OBSIDIAN_VAULT_PATH \o EXCLUDED_VAULT

\* "See [[B]] and [[C|alias]]"
BodyAlias == <<"S", "e", "e", " ", "[", "[", "B", "]", "]", " ", "a", "n", "d", " ", "[", "[", "C", "|", "a", "l", "i", "a", "s", "]", "]">>
\* "no links"
BodyNoLinks == <<"n", "o", " ", "l", "i", "n", "k", "s">>
\* "[[B]][[B]]"
BodyTwice == <<"[", "[", "B", "]", "]", "[", "[", "B", "]", "]">>
\* "[[ A |b]] [[]] [[x", a line break, "y]] [[[B]]"
BodyOdd == <<"[", "[", " ", "A", " ", "|", "b", "]", "]", " ", "[", "[", "]", "]", " ", "[", "[", "x", "\n", "y", "]", "]", " ", "[", "[", "[", "B", "]", "]">>

BuildNotes ==
    {[content |-> BodyAlias, tagsKind |-> "list", tags |-> <<(<<"x">>)>>],
     [content |-> BodyNoLinks, tagsKind |-> "list", tags |-> <<(<<"x">>)>>],
     [content |-> Link(<<"A">>), tagsKind |-> "absent", tags |-> <<>>],
     [content |-> BodyTwice, tagsKind |-> "list", tags |-> <<(<<"x">>), (<<"y">>)>>],
     [content |-> BodyOdd, tagsKind |-> "list", tags |-> <<(<<"A">>)>>]}

BuildPaths ==
    {<<OBSIDIAN_VAULT_PATH, MdFile(<<"A">>)>>,
     <<OBSIDIAN_VAULT_PATH, MdFile(<<"B">>)>>,
     <<OBSIDIAN_VAULT_PATH, MdFile(<<"C">>)>>,
     <<SUB_DIR, MdFile(<<"A">>)>>}

BuildFiles ==
    {File(p[1], p[2], "ok", n.content, n.tagsKind, n.tags) :
        p \in BuildPaths, n \in BuildNotes}
    \cup
    {File(OBSIDIAN_VAULT_PATH, MdFile(<<"B">>), "undecodable", <<>>, "absent", <<>>),
     File(SUB_DIR, MdFile(<<"B">>), "badyaml", Link(<<"A">>), "absent", <<>>),
     File(OBSIDIAN_VAULT_PATH, MdFile(<<"B">>), "ok", Link(<<"A">>), "scalar", <<>>),
     File(OBSIDIAN_VAULT_PATH, <<"A", ".", "t", "x", "t">>, "ok", Link(<<"B">>),
          "absent", <<>>),
     File(EXCL_DIR, MdFile(<<"A">>), "ok", Link(<<"B">>), "list", <<(<<"x">>)>>)}

\* os.walk is top-down: the vault's own files come first, and the files of one
\* directory come together; no two files share a path.
WalkOrder(v) ==
    /\ \A i, j \in 1..Len(v) : i < j => file_path(v[i]) # file_path(v[j])
    /\ \A i, j \in 1..Len(v) :
          (i < j /\ v[j].dir = OBSIDIAN_VAULT_PATH) => v[i].dir = OBSIDIAN_VAULT_PATH
    /\ \A i, j, k \in 1..Len(v) :
          (i < j /\ j < k /\ v[i].dir = v[k].dir) => v[j].dir = v[i].dir

BuildVaults ==
    {v \in UNION {[1..n -> BuildFiles] : n \in 0..MaxBuildFiles} : WalkOrder(v)}

\* The depth a request has when it names none.
DEFAULT_DEPTH == 2

InitBuild ==
    /\ vault \in BuildVaults
    /\ dirs = DirsOf(vault)
    /\ resp = NoResp
    /\ call = NoCall
    /\ last = NoLast

\* Requests for the full graph, and for the graph around the note A.
NextBuild ==
    \/ GenerateGraph(GraphRequests({None}, {DEFAULT_DEPTH})
                        \cup GraphRequests({Some(<<"A">>)}, {DEFAULT_DEPTH, MaxDepth}))
    \/ Deliver

SpecBuild == InitBuild /\ [][NextBuild]_vars

----------------------------------------------------------------------------
(***************************************************************************)
(* search_notes, lines 133-203.                                            *)
(***************************************************************************)
UPPER == <<"A", "B", "C", "D", "E", "F", "G", "H", "I", "J", "K", "L", "M", "N", "O", "P", "Q", "R", "S", "T", "U", "V", "W", "X", "Y", "Z">>
LOWER == <<"a", "b", "c", "d", "e", "f", "g", "h", "i", "j", "k", "l", "m", "n", "o", "p", "q", "r", "s", "t", "u", "v", "w", "x", "y", "z">>

LowerChar(c) ==
    IF \E i \in 1..Len(UPPER) : UPPER[i] = c
    THEN LOWER[CHOOSE i \in 1..Len(UPPER) : UPPER[i] = c]
    ELSE c

\* str.lower()
lower(s) == [i \in 1..Len(s) |-> LowerChar(s[i])]

(***************************************************************************)
(* The query is handed to re as a pattern. Queries are texts over          *)
(* QueryChars: a letter matches itself, '.' matches any character but a    *)
(* line break, and '(' opens a group that no query over QueryChars closes, *)
(* so that re.compile raises re.error.                                     *)
(***************************************************************************)
QueryChars == {"a", "A", "b", "d", "x", ".", "("}

re_error(pattern) == "(" \in Range(pattern)

AtomMatches(a, c, ignorecase) ==
    IF a = "." THEN c # "\n"
    ELSE IF ignorecase THEN LowerChar(a) = LowerChar(c)
    ELSE a = c

MatchesAt(pattern, s, i, ignorecase) ==
    /\ i + Len(pattern) - 1 <= Len(s)
    /\ \A k \in 1..Len(pattern) : AtomMatches(pattern[k], s[i + k - 1], ignorecase)

\* len(re.findall(pattern, s, re.IGNORECASE)) for a pattern that compiles: the
\* leftmost non-overlapping matches; the empty pattern matches at every position.
RECURSIVE findall_count(_, _, _)
findall_count(pattern, s, i) ==
    IF i > Len(s) + 1 THEN 0
    ELSE IF MatchesAt(pattern, s, i, TRUE)
         THEN 1 + findall_count(pattern, s, i + Max(Len(pattern), 1))
         ELSE findall_count(pattern, s, i + 1)

\* re.search(rf'\[\[{query}.*?\]\]', content) for a query that compiles.
search_backlink(query, s) ==
    \E i \in 1..Len(s) :
        /\ i + 1 <= Len(s)
        /\ s[i] = "[" /\ s[i + 1] = "["
        /\ MatchesAt(query, s, i + 2, FALSE)
        /\ CloseAt(s, i + 2 + Len(query)) # 0

\* content[:200] + '...' if len(content) > 200 else content
PREVIEW_LEN == 200
preview(content) ==
    IF Len(content) > PREVIEW_LEN
    THEN SubSeq(content, 1, PREVIEW_LEN) \o <<".", ".", ".">>
    ELSE content

\* `request.tags or [request.query]`
wanted_tags(request) ==
    IF request.tags.some /\ request.tags.val # <<>>
    THEN request.tags.val
    ELSE <<request.query>>

\* The outcome of the match test of one file: "match", "no", or "raise".
match_file(f, request) ==
    LET yes(b) == IF b THEN "match" ELSE "no"
    IN  IF request.search_type = "content"
        THEN yes(Contains(lower(f.content), lower(request.query)))
        ELSE IF request.search_type = "title"
        THEN yes(Contains(lower(f.file), lower(request.query)))
        ELSE IF request.search_type = "tags"
        THEN IF f.tagsKind = "scalar" THEN "raise"
             ELSE yes(\E tag \in Range(wanted_tags(request)) :
                          tag \in Range(metadata_tags(f)))
        ELSE IF request.search_type = "backlinks"
        THEN IF re_error(request.query) THEN "raise"
             ELSE yes(search_backlink(request.query, f.content))
        ELSE "no"

Result(f, request) ==
    [path |-> file_path(f), title |-> stem(f.file), preview |-> preview(f.content),
     tags |-> metadata_tags(f), modified |-> <<>>,
     matches |-> findall_count(request.query, f.content, 1)]

\* The body of the per-file try block: the file's result is appended unless the
\* read, the parse, the match test or the match count raises.
search_file(results, f, request) ==
    IF f.st # "ok" THEN results
    ELSE IF match_file(f, request) # "match" THEN results
    ELSE IF re_error(request.query) THEN results
    ELSE Append(results, Result(f, request))

\* `request.folder and request.folder not in root`
folder_skips(request, dir) ==
    /\ request.folder.some
    /\ request.folder.val # <<>>
    /\ ~Contains(dir, request.folder.val)

RECURSIVE scan_results(_, _, _, _)
scan_results(v, i, request, results) ==
    IF i > Len(v) THEN results
    ELSE scan_results(v, i + 1, request,
             IF \/ is_excluded_path(v[i].dir)
                \/ folder_skips(request, v[i].dir)
                \/ ~endswith_md(v[i].file)
             THEN results
             ELSE search_file(results, v[i], request))

\* results.sort(key=lambda x: x['matches'], reverse=True): a stable sort, also
\* with reverse=True; r goes behind every result that has at least its matches.
\* As insert_result, but r goes before the results that have its matches: what
\* sorting in ascending order and reversing the list gives.
insert_result_ties_reversed(sorted, r) ==
    LET n == Cardinality({i \in 1..Len(sorted) : sorted[i].matches > r.matches})
    IN  SubSeq(sorted, 1, n) \o <<r>> \o SubSeq(sorted, n + 1, Len(sorted))

insert_result(sorted, r) ==
    LET n == Cardinality({i \in 1..Len(sorted) : sorted[i].matches >= r.matches})
    IN  SubSeq(sorted, 1, n) \o <<r>> \o SubSeq(sorted, n + 1, Len(sorted))

RECURSIVE sort_from(_, _, _)
sort_from(results, i, sorted) ==
    IF i > Len(results) THEN sorted
    ELSE sort_from(results, i + 1, insert_result(sorted, results[i]))

sort_results(results) == sort_from(results, 1, <<>>)

\* results[:limit]; a negative limit counts from the end.
take(results, limit) ==
    IF limit >= 0 THEN SubSeq(results, 1, Min(limit, Len(results)))
    ELSE SubSeq(results, 1, Max(0, Len(results) + limit))

\* As search_notes, but the list is cut to the limit before it is sorted.
search_notes_cut_first(v, request) ==
    LET found == scan_results(v, 1, request, <<>>)
    IN  [kind |-> "search", request |-> request, query |-> request.query,
         count |-> Len(found),
         results |-> sort_results(take(found, request.limit))]

search_notes(v, request) ==
    LET results == sort_results(scan_results(v, 1, request, <<>>))
    IN  [kind |-> "search", request |-> request, query |-> request.query,
         count |-> Len(results), results |-> take(results, request.limit)]

\* POST /api/notes/search
SearchNotes(requests) ==
    /\ resp = NoResp
    /\ call = NoCall
    /\ \E request \in requests :
          /\ dirs' = ensure_vault_exists(dirs)
          /\ resp' = search_notes(vault, request)
    /\ UNCHANGED <<vault, call, last>>

----------------------------------------------------------------------------
(***************************************************************************)
(* Inputs of the search specification.                                     *)
(***************************************************************************)
\* Largest number of files in a vault of the search specification.
MaxSearchFiles == 3
\* Largest limit a search request asks for; the least is -1.
MaxLimit == 2

SearchFiles ==
    {File(OBSIDIAN_VAULT_PATH, MdFile(<<"a">>), "ok", <<"a", "b">>,
          "list", <<(<<"x">>)>>),
     File(OBSIDIAN_VAULT_PATH, MdFile(<<"B">>), "ok", <<"a", "(", "b", " ", "a", "(", "B">>,
          "absent", <<>>),
     File(OBSIDIAN_VAULT_PATH, MdFile(<<"B">>), "ok", <<"A", "b", ".", "a", "b">>,
          "list", <<(<<"x">>), (<<"b">>)>>),
     File(OBSIDIAN_VAULT_PATH, MdFile(<<"c">>), "ok", <<"a", "a", "a">>,
          "list", <<>>),
     File(OBSIDIAN_VAULT_PATH, MdFile(<<"c">>), "undecodable", <<>>, "absent", <<>>),
     File(OBSIDIAN_VAULT_PATH, <<"a", ".", "t", "x", "t">>, "ok", <<"a">>,
          "absent", <<>>),
     File(SUB_DIR, MdFile(<<"a">>), "ok", <<"[", "[", "a", "b", "|", "x", "]", "]", " ", "b">>,
          "list", <<(<<"b">>)>>),
     File(SUB_DIR, MdFile(<<"B">>), "ok", <<"b">>, "scalar", <<>>),
     File(SUB_DIR, MdFile(<<"c">>), "badyaml", <<"a">>, "absent", <<>>),
     File(EXCL_DIR, MdFile(<<"a">>), "ok", <<"a">>, "list", <<(<<"x">>)>>)}

SearchVaults ==
    {v \in UNION {[1..n -> SearchFiles] : n \in 0..MaxSearchFiles} : WalkOrder(v)}

Queries == {<<"a">>, <<"A", "b">>, <<"b">>, <<"d">>, <<"x">>, <<".">>, <<"(">>}

SearchTypes == {"content", "title", "tags", "backlinks", "fuzzy"}

\* Every query, limit and search type; a tag list goes with a tag search and a
\* folder with a content search.
SearchRequests ==
    {r \in [query : Queries, folder : {None, Some(<<"s">>)},
            tags : {None, Some(<<(<<"x">>)>>)}, limit : (-1)..MaxLimit,
            search_type : SearchTypes] :
        /\ r.tags.some => (r.search_type = "tags" /\ ~r.folder.some)
        /\ r.folder.some => r.search_type = "content"}

InitSearch ==
    /\ vault \in SearchVaults
    /\ dirs = DirsOf(vault)
    /\ resp = NoResp
    /\ call = NoCall
    /\ last = NoLast

NextSearch ==
    \/ SearchNotes(SearchRequests)
    \/ Deliver

SpecSearch == InitSearch /\ [][NextSearch]_vars

----------------------------------------------------------------------------
(***************************************************************************)
(* Claims about the scoped traversal.                                      *)
(***************************************************************************)
IsGraph == resp.kind = "graph"

\* The full node map and edge list the request's scan produced.
FullGraph == build_graph(vault, 1, resp.request.include_tags, EmptyGraph)

RootGiven == resp.request.node.some /\ resp.request.node.val # <<>>

IsScoped == IsGraph /\ RootGiven /\ HasKey(FullGraph.nodes, resp.request.node.val)

ReqRoot == resp.request.node.val

\* Nodes of the full node map one undirected hop from a node of S.
Neighbours(g, S) ==
    {n \in Keys(g.nodes) :
        \E i \in 1..Len(g.edges) :
            \/ g.edges[i].source \in S /\ g.edges[i].target = n
            \/ g.edges[i].target \in S /\ g.edges[i].source = n}

\* Nodes at undirected hop distance at most d from root.
RECURSIVE Ball(_, _, _)
Ball(g, root, d) ==
    IF d = 0 THEN {root}
    ELSE LET B == Ball(g, root, d - 1) IN B \cup Neighbours(g, B)

\* C1: a graph request whose root is non-empty and is not a key of the full node
\* map answers with no node and no edge.
C1_MissingRootEmpty ==
    (IsGraph /\ RootGiven /\ ~HasKey(FullGraph.nodes, ReqRoot))
        => (resp.nodes = <<>> /\ resp.edges = <<>>)

\* C2: for an existing root, the nodes returned at depth d are among the nodes
\* returned at depth d + 1.
C2_DepthMonotone ==
    IsScoped =>
        Keys(resp.nodes) \subseteq
            Keys(generate_graph(vault,
                    [resp.request EXCEPT !.depth = @ + 1]).nodes)

\* C3: for an existing root, depth 0 returns exactly one node, the root.
C3_DepthZeroIsRoot ==
    (IsScoped /\ resp.request.depth = 0)
        => (Len(resp.nodes) = 1 /\ resp.nodes[1].id = ReqRoot)

\* C4: for an existing root and depth d, the returned nodes are exactly the nodes
\* of the full node map at undirected hop distance at most d from the root.
C4_NodesAreBall ==
    IsScoped => Keys(resp.nodes) = Ball(FullGraph, ReqRoot, resp.request.depth)

\* C5: the scoped result is an induced subgraph: an edge of the full edge list
\* between two nodes of the full node map is returned if and only if both its
\* ends are returned nodes.
C5_InducedSubgraph ==
    IsScoped =>
        \A i \in 1..Len(FullGraph.edges) :
            LET e == FullGraph.edges[i]
            IN  (e.source \in Keys(FullGraph.nodes) /\ e.target \in Keys(FullGraph.nodes))
                    => ((e \in Range(resp.edges))
                            <=> (e.source \in Keys(resp.nodes)
                                    /\ e.target \in Keys(resp.nodes)))

----------------------------------------------------------------------------
(***************************************************************************)
(* Claims about the graph build.                                           *)
(***************************************************************************)
\* The number of [[...]] occurrences of a text, read off character by character:
\* "[[" opens a reference, the next "]]" on the same line closes it.
RECURSIVE CountRefs(_, _, _)
CountRefs(s, i, open) ==
    IF i > Len(s) THEN 0
    ELSE IF ~open
         THEN IF i < Len(s) /\ s[i] = "[" /\ s[i + 1] = "["
              THEN CountRefs(s, i + 2, TRUE)
              ELSE CountRefs(s, i + 1, FALSE)
         ELSE IF s[i] = "\n" THEN CountRefs(s, i + 1, FALSE)
              ELSE IF i < Len(s) /\ s[i] = "]" /\ s[i + 1] = "]"
                   THEN 1 + CountRefs(s, i + 2, FALSE)
                   ELSE CountRefs(s, i + 1, TRUE)

\* A file the scan reaches, and one it reads and parses without error.
Scanned(f) == ~is_excluded_path(f.dir) /\ endswith_md(f.file)
ScannedOk(f) == Scanned(f) /\ f.st = "ok"

RECURSIVE SumRefs(_, _)
SumRefs(v, i) ==
    IF i > Len(v) THEN 0
    ELSE (IF ScannedOk(v[i]) THEN CountRefs(v[i].content, 1, FALSE) ELSE 0)
            + SumRefs(v, i + 1)

LinkEdges(edges) == {i \in 1..Len(edges) : edges[i].type = "link"}

IsFull == IsGraph /\ ~IsScoped

\* C6: in the full graph the number of link edges is the number of [[...]]
\* occurrences over all scanned documents; repeated references and references to
\* targets that are no document are counted.
C6_LinkEdgeCount ==
    IsFull => Cardinality(LinkEdges(resp.edges)) = SumRefs(vault, 1)

\* A full graph with a reference made twice by one document and a reference to a
\* target that is no node.
C6_Witness ==
    /\ IsFull
    /\ \E i, j \in LinkEdges(resp.edges) : i < j /\ resp.edges[i] = resp.edges[j]
    /\ \E i \in LinkEdges(resp.edges) : ~HasKey(resp.nodes, resp.edges[i].target)

ValidFiles == {i \in 1..Len(vault) : ScannedOk(vault[i])}
FailingFiles == {i \in 1..Len(vault) : Scanned(vault[i]) /\ vault[i].st # "ok"}

\* C7: when one file of the vault raises while it is read or parsed, the full
\* graph holds a Document node for every valid file, and as many Document nodes
\* as there are valid files.
C7_OneBadFile ==
    (IsFull /\ Cardinality(FailingFiles) = 1) =>
        /\ \A i \in ValidFiles :
              \E k \in 1..Len(resp.nodes) :
                  /\ resp.nodes[k].type = "note"
                  /\ resp.nodes[k].path = file_path(vault[i])
        /\ CountType(resp.nodes, "note") = Cardinality(ValidFiles)

----------------------------------------------------------------------------
(***************************************************************************)
(* Claims about the ranked search.                                         *)
(***************************************************************************)
IsSearch == resp.kind = "search"

\* The results of the request's scan, in the order the scan found them.
Found == scan_results(vault, 1, resp.request, <<>>)

Returned(r) == \E k \in 1..Len(resp.results) : resp.results[k].path = r.path

LeftOut(found) == {i \in 1..Len(found) : ~Returned(found[i])}

\* C8: the returned list is ordered by non-increasing match count, and no result
\* the limit leaves out has more matches than one that is returned.
C8_SortedTruncation ==
    IsSearch =>
        LET found == Found
        IN  /\ \A i, j \in 1..Len(resp.results) :
                  i < j => resp.results[i].matches >= resp.results[j].matches
            /\ \A i \in LeftOut(found) : \A k \in 1..Len(resp.results) :
                  found[i].matches <= resp.results[k].matches

\* The limit cuts a list of three different match counts that the scan found in
\* another order.
C8_Witness ==
    /\ IsSearch
    /\ Len(resp.results) = 2
    /\ resp.results[1].matches > resp.results[2].matches
    /\ \E i \in LeftOut(Found) : Found[i].matches < resp.results[2].matches
    /\ Found[1].matches < Found[2].matches

\* The place of a result in the full list sorted by descending match count, ties
\* in the order of the scan.
Rank(found, r) ==
    LET pos == CHOOSE i \in 1..Len(found) : found[i].path = r.path
    IN  1 + Cardinality({i \in 1..Len(found) :
                            \/ found[i].matches > r.matches
                            \/ found[i].matches = r.matches /\ i < pos})

\* C9: results of equal match count keep the order of the scan, and the returned
\* list is the head of the fully sorted list, of length min(limit, count) for a
\* limit that is not negative.
C9_TiesInScanOrder ==
    IsSearch =>
        LET found == Found
        IN  /\ \A k \in 1..Len(resp.results) :
                  /\ \E i \in 1..Len(found) : found[i] = resp.results[k]
                  /\ Rank(found, resp.results[k]) = k
            /\ resp.count = Len(found)
            /\ resp.request.limit >= 0
                  => Len(resp.results) = Min(resp.request.limit, Len(found))

\* The limit cuts between two results of equal match count, and the scan found
\* the results in an order that is not the sorted one.
C9_Witness ==
    /\ IsSearch
    /\ resp.results # <<>>
    /\ \E i \in LeftOut(Found) :
          Found[i].matches = resp.results[Len(resp.results)].matches
    /\ \E i, j \in 1..Len(Found) : i < j /\ Found[i].matches < Found[j].matches

\* The documents read and parsed without error whose raw text holds the query,
\* whatever the case of the letters.
Holding ==
    {i \in 1..Len(vault) :
        /\ ScannedOk(vault[i])
        /\ Contains(lower(vault[i].content), lower(resp.request.query))}

\* C10: in content mode the documents that match, before the limit cuts the list,
\* are exactly the readable documents whose raw text holds the query string.
C10_ContentMatchSet ==
    (IsSearch /\ resp.request.search_type = "content" /\ ~resp.request.folder.some) =>
        /\ resp.count = Cardinality(Holding)
        /\ \A k \in 1..Len(resp.results) :
              \E i \in Holding : resp.results[k].path = file_path(vault[i])
        /\ Len(resp.results) = resp.count
              => \A i \in Holding :
                    \E k \in 1..Len(resp.results) :
                        resp.results[k].path = file_path(vault[i])

\* The file of the vault a result was built from.
FileOf(r) == vault[CHOOSE i \in 1..Len(vault) : file_path(vault[i]) = r.path]

\* The number of occurrences of the text q in the text s from position i on, read
\* as plain text: occurrences are counted from the left and do not overlap.
RECURSIVE CountLiteral(_, _, _)
CountLiteral(q, s, i) ==
    IF i + Len(q) - 1 > Len(s) THEN 0
    ELSE IF SubSeq(s, i, i + Len(q) - 1) = q
         THEN 1 + CountLiteral(q, s, i + Len(q))
         ELSE CountLiteral(q, s, i + 1)

\* C11: the match count of every returned result is the number of occurrences of
\* the query, taken as plain text and whatever the case of the letters, in the raw
\* text of the result's document.
C11_LiteralMatchCount ==
    IsSearch =>
        \A k \in 1..Len(resp.results) :
            resp.results[k].matches =
                CountLiteral(lower(resp.request.query),
                             lower(FileOf(resp.results[k]).content), 1)

\* The results of the request's scan are the results of exactly the files in S.
FoundAre(S) ==
    LET found == Found
    IN  /\ Len(found) = Cardinality(S)
        /\ \A i \in S : \E k \in 1..Len(found) : found[k].path = file_path(vault[i])

NoFolder == ~resp.request.folder.some

\* The documents read and parsed without error whose identifier (the file name
\* without directory and extension) holds the query, whatever the case.
TitleHolding ==
    {i \in 1..Len(vault) :
        /\ ScannedOk(vault[i])
        /\ Contains(lower(stem(vault[i].file)), lower(resp.request.query))}

\* C12: in title mode the documents that match are exactly the readable documents
\* whose identifier holds the query; the file extension is no part of it.
C12_TitleMatchSet ==
    (IsSearch /\ resp.request.search_type = "title" /\ NoFolder)
        => FoundAre(TitleHolding)

\* The tags a tag search asks for: the query and the tags of the request's list.
AskedTags ==
    {resp.request.query}
        \cup (IF resp.request.tags.some THEN Range(resp.request.tags.val) ELSE {})

\* The documents read and parsed without error that carry one of the asked tags.
TagHolding ==
    {i \in 1..Len(vault) :
        /\ ScannedOk(vault[i])
        /\ vault[i].tagsKind # "scalar"
        /\ Range(metadata_tags(vault[i])) \cap AskedTags # {}}

\* C13: in tag mode the documents that match are exactly the readable documents
\* one of whose tags is the query or a tag of the request's tag list, also when
\* the list is not empty and does not hold the query.
C13_TagMatchSet ==
    (IsSearch /\ resp.request.search_type = "tags" /\ NoFolder)
        => FoundAre(TagHolding)

\* s begins with p.
StartsWith(s, p) == Len(p) <= Len(s) /\ SubSeq(s, 1, Len(p)) = p

\* The documents read and parsed without error with a [[...]] reference whose
\* text begins with the query.
BacklinkHolding ==
    {i \in 1..Len(vault) :
        /\ ScannedOk(vault[i])
        /\ \E link \in Range(find_links(vault[i].content)) :
              StartsWith(link, resp.request.query)}

\* C14: in backlink mode the documents that match are exactly the readable
\* documents that hold a [[...]] reference whose target begins with the query.
C14_BacklinkMatchSet ==
    (IsSearch /\ resp.request.search_type = "backlinks" /\ NoFolder)
        => FoundAre(BacklinkHolding)

\* search_type: str = "content"  # content, title, tags, backlinks
SEARCH_MODES == {"content", "title", "tags", "backlinks"}

\* C15: no search request of an unknown mode is answered with a result list.
C15_UnknownModeIsError ==
    IsSearch => resp.request.search_type \in SEARCH_MODES

----------------------------------------------------------------------------
(***************************************************************************)
(* Further claims about the graph build.                                   *)
(***************************************************************************)
\* C16: the full graph has as many Document nodes as there are documents the scan
\* read and parsed, also when two of them in different directories have one name.
C16_OneNodePerDocument ==
    IsFull => CountType(resp.nodes, "note") = Cardinality(ValidFiles)

HasNode(id, type) ==
    \E k \in 1..Len(resp.nodes) : resp.nodes[k].id = id /\ resp.nodes[k].type = type

\* The tags of the documents the scan read and parsed.
ScannedTags ==
    UNION {Range(metadata_tags(vault[i])) :
              i \in {j \in ValidFiles : vault[j].tagsKind # "scalar"}}

\* C17: with tag nodes asked for, every tag of a scanned document has a node of
\* type tag, every scanned document has a node of type note, and every tag edge
\* ends at a node of type tag, also when a tag is spelled like a document name.
C17_NoIdCollision ==
    (IsFull /\ resp.request.include_tags) =>
        /\ \A tag \in ScannedTags : HasNode(tag, "tag")
        /\ \A i \in ValidFiles : HasNode(stem(vault[i].file), "note")
        /\ \A k \in 1..Len(resp.edges) :
              resp.edges[k].type = "tag" => HasNode(resp.edges[k].target, "tag")

\* The corpus A ("See [[B]] and [[C|alias]]", tags [x]), B ("no links", tags [x]),
\* C ("[[A]]", no tags), in any scan order.
IsExampleCorpus ==
    /\ Len(vault) = 3
    /\ \A i \in 1..3 : vault[i].dir = OBSIDIAN_VAULT_PATH /\ vault[i].st = "ok"
    /\ {<<vault[i].file, vault[i].content, metadata_tags(vault[i])>> : i \in 1..3}
          = {<<MdFile(<<"A">>), BodyAlias, <<(<<"x">>)>> >>,
             <<MdFile(<<"B">>), BodyNoLinks, <<(<<"x">>)>> >>,
             <<MdFile(<<"C">>), Link(<<"A">>), <<>> >>}

\* C18: the full graph of the example corpus, built with tag nodes, has the nodes
\* A, B, C (notes) and x (tag) and the five edges A->B, A->C, C->A (link) and
\* A->x, B->x (tag), each once; the alias of [[C|alias]] is no part of the target.
C18_ExampleGraph ==
    (IsFull /\ resp.request.include_tags /\ IsExampleCorpus) =>
        /\ Len(resp.nodes) = 4
        /\ HasNode(<<"A">>, "note") /\ HasNode(<<"B">>, "note")
        /\ HasNode(<<"C">>, "note") /\ HasNode(<<"x">>, "tag")
        /\ Len(resp.edges) = 5
        /\ Range(resp.edges) =
              {Edge(<<"A">>, <<"B">>, "link"), Edge(<<"A">>, <<"C">>, "link"),
               Edge(<<"C">>, <<"A">>, "link"),
               Edge(<<"A">>, <<"x">>, "tag"), Edge(<<"B">>, <<"x">>, "tag")}

\* The example corpus, scanned in the order C, B, A, was answered with tag nodes.
C18_Witness ==
    /\ IsFull /\ resp.request.include_tags /\ IsExampleCorpus
    /\ vault[1].file = MdFile(<<"C">>) /\ vault[3].file = MdFile(<<"A">>)
    /\ Len(resp.edges) = 5

----------------------------------------------------------------------------
(***************************************************************************)
(* generate_graph with the calls of traverse taken one at a time. call is  *)
(*   request  the request,                                                 *)
(*   g        the node map and the edge list of the scan,                  *)
(*   stack    the frames of traverse, the innermost last: the frame's      *)
(*            node and depth and the index i of the edge its loop looks at *)
(*            next,                                                        *)
(*   nodes    filtered_nodes, or the full node map when nothing is         *)
(*            filtered,                                                    *)
(*   edges    filtered_edges, or the full edge list.                       *)
(***************************************************************************)
\* As unvisited, but no node is ever held back.
unvisited_always(filtered_nodes, n) == TRUE

\* As unvisited, but the node that was added last is not held back.
unvisited_or_self(filtered_nodes, n) ==
    \/ ~HasKey(filtered_nodes, n)
    \/ filtered_nodes[Len(filtered_nodes)].id = n

\* `edge[...] not in filtered_nodes`
unvisited(filtered_nodes, n) == ~HasKey(filtered_nodes, n)

\* The call traverse(node, depth) up to its loop: lines 278-281.
enter(c, node, depth) ==
    IF depth <= 0 \/ ~HasKey(c.g.nodes, node) THEN c
    ELSE [c EXCEPT !.stack = Append(@, [node |-> node, depth |-> depth, i |-> 1]),
                   !.nodes = DictSet(@, Get(c.g.nodes, node))]

\* The response of lines 295-303.
graph_response(request, nodes, edges) ==
    [kind |-> "graph", request |-> request, nodes |-> nodes, edges |-> edges,
     stats |-> [total_notes |-> CountType(nodes, "note"),
                total_tags  |-> CountType(nodes, "tag"),
                total_links |-> Len(edges)]]

\* The handler from its start to the call of line 291.
TraverseBegin(requests) ==
    /\ resp = NoResp
    /\ call = NoCall
    /\ \E request \in requests :
          LET g == build_graph(vault, 1, request.include_tags, EmptyGraph)
              c == [kind |-> "graph", request |-> request, g |-> g,
                    stack |-> <<>>, nodes |-> <<>>, edges |-> <<>>]
          IN  /\ dirs' = ensure_vault_exists(dirs)
              /\ call' = IF scoped(g, request)
                         THEN enter(c, request.node.val, request.depth)
                         ELSE [c EXCEPT !.nodes = g.nodes, !.edges = g.edges]
    /\ UNCHANGED <<vault, resp, last>>

\* One turn of the loop of lines 283-289 in the innermost frame.
TraverseEdge ==
    /\ call # NoCall
    /\ call.stack # <<>>
    /\ call.stack[Len(call.stack)].i <= Len(call.g.edges)
    /\ LET n     == Len(call.stack)
           frame == call.stack[n]
           edge  == call.g.edges[frame.i]
           c1    == [call EXCEPT !.stack[n].i = @ + 1]
           follow(other) ==
               enter([c1 EXCEPT !.edges = Append(@, edge)], other, frame.depth - 1)
       IN  call' = IF edge.source = frame.node /\ unvisited(call.nodes, edge.target)
                   THEN follow(edge.target)
                   ELSE IF edge.target = frame.node
                           /\ unvisited(call.nodes, edge.source)
                   THEN follow(edge.source)
                   ELSE c1
    /\ UNCHANGED <<vault, dirs, resp, last>>

\* The loop of the innermost frame is over: traverse returns to its caller.
TraverseReturn ==
    /\ call # NoCall
    /\ call.stack # <<>>
    /\ call.stack[Len(call.stack)].i > Len(call.g.edges)
    /\ call' = [call EXCEPT !.stack = SubSeq(@, 1, Len(@) - 1)]
    /\ UNCHANGED <<vault, dirs, resp, last>>

\* traverse has returned to the handler (or was not called): lines 292-303.
TraverseEnd ==
    /\ call # NoCall
    /\ call.stack = <<>>
    /\ resp' = graph_response(call.request, call.nodes, call.edges)
    /\ call' = NoCall
    /\ UNCHANGED <<vault, dirs, last>>

\* Vaults whose references make cycles, self references and repeated edges.
CycleBodies ==
    {<<>>, Link(<<"A">>), Link(<<"B">>), Link(<<"B">>) \o Link(<<"B">>),
     Link(<<"C">>) \o Link(<<"A">>)}

CycleVaults ==
    UNION {{[i \in 1..n |-> TravFile(i, c[i], <<>>)] : c \in [1..n -> CycleBodies]} :
              n \in 1..Len(NoteNames)}

CycleRequests ==
    [node : {None, Some(<<"Z">>)} \cup {Some(NoteNames[i]) : i \in 1..Len(NoteNames)},
     depth : 0..MaxDepth, include_tags : {FALSE}]

InitTraverse ==
    /\ vault \in CycleVaults
    /\ dirs = DirsOf(vault)
    /\ resp = NoResp
    /\ call = NoCall
    /\ last = NoLast

NextTraverse ==
    \/ TraverseBegin(CycleRequests)
    \/ TraverseEdge
    \/ TraverseReturn
    \/ TraverseEnd
    \/ Deliver

\* The handler has no await in it: once started it runs until it returns.
SpecTraverse ==
    InitTraverse /\ [][NextTraverse]_vars
        /\ WF_vars(TraverseEdge \/ TraverseReturn \/ TraverseEnd)

----------------------------------------------------------------------------
(***************************************************************************)
(* Claims about the course of the traversal.                               *)
(***************************************************************************)
Traversing == call # NoCall

\* The step enters traverse for a node: a frame is pushed.
Expanding ==
    /\ call' # NoCall
    /\ Len(call'.stack) > (IF call = NoCall THEN 0 ELSE Len(call.stack))

\* C20: the traversal of every graph comes to its end, and no step expands a node
\* that is in the result set already: a node is added, and its edges are scanned,
\* at most once.
C20_TraversalTerminates ==
    /\ [][(Expanding /\ call # NoCall)
            => ~HasKey(call.nodes, call'.stack[Len(call'.stack)].node)]_vars
    /\ (Traversing ~> ~Traversing)

\* A traversal has ended on a graph with a cycle through three notes, a self
\* reference and a repeated edge, and has returned all three notes.
C20_Witness ==
    /\ IsScoped
    /\ ~Traversing
    /\ Len(resp.nodes) = 3
    /\ \E i, j \in 1..Len(FullGraph.edges) :
          i < j /\ FullGraph.edges[i] = FullGraph.edges[j]
    /\ \E i \in 1..Len(FullGraph.edges) :
          FullGraph.edges[i].source = FullGraph.edges[i].target

----------------------------------------------------------------------------
(***************************************************************************)
(* create_note, lines 78-131, for requests that name no template and no    *)
(* extra metadata.                                                         *)
(***************************************************************************)
\* Path(a) / b: an absolute b replaces a.
PathJoin(a, b) == IF b # <<>> /\ b[1] = "/" THEN b ELSE Join(a, b)

\* The directories above a path, which mkdir(parents=True) makes with it.
Parents(path) ==
    {SubSeq(path, 1, k - 1) : k \in {j \in 2..Len(path) : path[j] = "/"}}

\* Pieces of the text frontmatter.dumps writes.
FENCE == <<"-", "-", "-">>
STAMPS == <<"c", "r", "e", "a", "t", "e", "d", ":", " ", "'", "t", "'", "\n", "m", "o", "d", "i", "f", "i", "e", "d", ":", " ", "'", "t", "'", "\n">>
TAGS_KEY == <<"t", "a", "g", "s", ":">>
TITLE_KEY == <<"t", "i", "t", "l", "e", ":", " ">>

\* The YAML text of a tag list: "tags: []", or "tags:" and a "- tag" line each.
RECURSIVE yaml_items(_)
yaml_items(tags) ==
    IF tags = <<>> THEN <<>>
    ELSE <<"\n", "-", " ">> \o Head(tags) \o yaml_items(Tail(tags))

yaml_tags(tags) ==
    TAGS_KEY \o (IF tags = <<>> THEN <<" ", "[", "]">> ELSE yaml_items(tags))

\* frontmatter.dumps(post): the metadata as YAML with its keys in sorted order
\* between two "---" lines, an empty line, the content. The two time stamps are
\* shortened to 't'.
dumps(title, tags, content) ==
    FENCE \o <<"\n">> \o STAMPS \o yaml_tags(tags) \o <<"\n">>
        \o TITLE_KEY \o title \o <<"\n">> \o FENCE \o <<"\n", "\n">> \o content

\* The lines of a text, without their line breaks.
RECURSIVE splitlines(_)
splitlines(text) ==
    LET p == FirstIndex(text, "\n", 1, Len(text))
    IN  IF p = 0 THEN <<text>>
        ELSE <<SubSeq(text, 1, p - 1)>> \o splitlines(SubSeq(text, p + 1, Len(text)))

\* The "- tag" lines from line i on, as far as they go.
RECURSIVE yaml_list(_, _)
yaml_list(ls, i) ==
    IF i > Len(ls) \/ ~StartsWith(ls[i], <<"-", " ">>) THEN <<>>
    ELSE <<SubSeq(ls[i], 3, Len(ls[i]))>> \o yaml_list(ls, i + 1)

\* frontmatter.loads(content).metadata.get('tags', []) of a text that dumps wrote:
\* the list under the first line of the header that starts the tags key.
loads_tags(text) ==
    LET ls == splitlines(text)
        at == {i \in 2..Len(ls) :
                  /\ StartsWith(ls[i], TAGS_KEY)
                  /\ \A j \in 2..i : ls[j] # FENCE}
    IN  IF at = {} THEN <<>>
        ELSE yaml_list(ls, (CHOOSE i \in at : \A j \in at : i <= j) + 1)

\* open(note_path, 'w'): a file of that path is replaced where it stands, a new
\* file is listed at place pos.
write_file(v, f, pos) ==
    IF \E i \in 1..Len(v) : file_path(v[i]) = file_path(f)
    THEN [i \in 1..Len(v) |-> IF file_path(v[i]) = file_path(f) THEN f ELSE v[i]]
    ELSE SubSeq(v, 1, pos - 1) \o <<f>> \o SubSeq(v, pos, Len(v))

\* The handler's effect on the files and directories, and its response. The 403
\* of line 91 is raised inside the try block, and line 131 turns every exception
\* into a 500.
create_note(v, ds, request, pos) ==
    LET ds1 == ensure_vault_exists(ds)
        folder_path ==
            IF request.folder.some /\ request.folder.val # <<>>
            THEN PathJoin(OBSIDIAN_VAULT_PATH, request.folder.val)
            ELSE OBSIDIAN_VAULT_PATH
        tags == IF request.tags.some THEN request.tags.val ELSE <<>>
        text == dumps(request.title, tags, request.content)
        f == File(folder_path, MdFile(request.title), "ok", text, "list",
                  loads_tags(text))
    IN  IF is_excluded_path(folder_path)
        THEN [vault |-> v, dirs |-> ds1,
              resp |-> [kind |-> "error", request |-> request, status_code |-> 500,
                        detail |-> "403: Cannot modify excluded vault"]]
        ELSE [vault |-> write_file(v, f, pos),
              dirs |-> ds1 \cup {folder_path} \cup Parents(folder_path),
              resp |-> [kind |-> "created", request |-> request, success |-> TRUE,
                        path |-> file_path(f)]]

\* POST /api/notes/create; the place of a new file in the listing of its
\* directory is the file system's choice.
CreateNote(requests) ==
    /\ resp = NoResp
    /\ call = NoCall
    /\ \E request \in requests, pos \in 1..(Len(vault) + 1) :
          LET out == create_note(vault, dirs, request, pos)
          IN  /\ WalkOrder(out.vault)
              /\ vault' = out.vault
              /\ dirs' = out.dirs
              /\ resp' = out.resp
    /\ UNCHANGED <<call, last>>

\* As Deliver; last keeps the graph or search response that was sent.
DeliverNoted ==
    /\ resp # NoResp
    /\ resp' = NoResp
    /\ last' = IF resp.kind \in {"graph", "search"}
               THEN [kind |-> "sent", resp |-> resp, vault |-> vault]
               ELSE last
    /\ UNCHANGED <<vault, dirs, call>>

(***************************************************************************)
(* Inputs of the session specification: notes are created, and graph and   *)
(* search requests are answered, in any order, from an empty store on.     *)
(***************************************************************************)
NoteRequests ==
    [title : {<<"A">>, <<"B">>}, content : {<<>>, Link(<<"B">>)},
     folder : {None, Some(EXCLUDED_VAULT)}, tags : {None, Some(<<(<<"x">>)>>)}]

SessionGraphRequests ==
    [node : {None, Some(<<"A">>)}, depth : {DEFAULT_DEPTH}, include_tags : {TRUE}]

SessionSearchRequests ==
    [query : {<<"b">>}, folder : {None}, tags : {None}, limit : {MaxLimit},
     search_type : {"content", "tags"}]

InitSession ==
    /\ vault = <<>>
    /\ dirs \in {{}, {OBSIDIAN_VAULT_PATH}}
    /\ resp = NoResp
    /\ call = NoCall
    /\ last = NoLast

NextSession ==
    \/ CreateNote(NoteRequests)
    \/ GenerateGraph(SessionGraphRequests)
    \/ SearchNotes(SessionSearchRequests)
    \/ DeliverNoted

SpecSession == InitSession /\ [][NextSession]_vars

----------------------------------------------------------------------------
----------------------------------------------------------------------------
(***************************************************************************)
(* Further claims about the scoped traversal and the graph build.          *)
(***************************************************************************)
\* The undirected hop distance of a node of the full node map from the root, for
\* a node that some path reaches.
Dist(g, root, n) ==
    CHOOSE d \in 0..Len(g.nodes) :
        /\ n \in Ball(g, root, d)
        /\ d > 0 => n \notin Ball(g, root, d - 1)

\* C21: the nodes of a scoped result stand in the order of their distance from
\* the root: no node is listed before a node that is nearer to the root.
C21_BreadthFirstOrder ==
    IsScoped =>
        LET g == FullGraph
            D == [k \in 1..Len(resp.nodes) |-> Dist(g, ReqRoot, resp.nodes[k].id)]
        IN  \A i, j \in 1..Len(resp.nodes) : i < j => D[i] <= D[j]

\* A file the scan reaches whose processing raises: it cannot be read or parsed,
\* or its tags cannot be iterated when tag nodes are asked for.
Fails(f, include_tags) ==
    /\ Scanned(f)
    /\ f.st # "ok" \/ (include_tags /\ f.tagsKind = "scalar")

\* The vault without the files whose processing raises.
WithoutFailing(v, include_tags) ==
    SelectSeq(v, LAMBDA f : ~Fails(f, include_tags))

\* C22: a file whose processing raises at any point adds nothing to the full
\* graph: the response is the one the vault gives without that file.
C22_FailedFileAddsNothing ==
    IsFull =>
        LET g == build_graph(WithoutFailing(vault, resp.request.include_tags), 1,
                             resp.request.include_tags, EmptyGraph)
        IN  resp.nodes = g.nodes /\ resp.edges = g.edges

\* C23: in the full graph the source of every edge, link or tag, is the key of a
\* node of type note.
C23_EdgeSourceIsNote ==
    IsFull =>
        \A k \in 1..Len(resp.edges) : HasNode(resp.edges[k].source, "note")

\* A full graph with tag nodes in which a tag is spelled like a note that has
\* references, and a reference names no node.
C23_Witness ==
    /\ IsFull
    /\ resp.request.include_tags
    /\ \E k \in 1..Len(resp.edges) :
          /\ resp.edges[k].type = "tag"
          /\ \E j \in 1..Len(resp.edges) :
                resp.edges[j].type = "link"
                    /\ resp.edges[j].source = resp.edges[k].target
    /\ \E k \in 1..Len(resp.edges) : ~HasKey(resp.nodes, resp.edges[k].target)

\* C24: no step of a graph request changes the files or the directories of the
\* store, whether or not the vault directory exists.
C24_RequestOnlyReads ==
    [][vault' = vault /\ dirs' = dirs]_vars

\* The number of places of a sequence that hold e.
Count(seq, e) == Cardinality({i \in 1..Len(seq) : seq[i] = e})

\* C27: in a scoped result every returned edge is an edge of the full list and is
\* returned no more often than the full list holds it, one of its ends is a
\* returned node, and its two ends differ.
C27_ReturnedEdges ==
    IsScoped =>
        /\ Len(resp.edges) <= Len(FullGraph.edges)
        /\ \A k \in 1..Len(resp.edges) :
              LET e == resp.edges[k]
              IN  /\ Count(resp.edges, e) <= Count(FullGraph.edges, e)
                  /\ e.source \in Keys(resp.nodes) \/ e.target \in Keys(resp.nodes)
                  /\ e.source # e.target

\* A scoped result returns both occurrences of a repeated edge, over a graph in
\* which a note refers to itself.
C27_Witness ==
    /\ IsScoped
    /\ \E i, j \in 1..Len(resp.edges) : i < j /\ resp.edges[i] = resp.edges[j]
    /\ \E i \in 1..Len(FullGraph.edges) :
          FullGraph.edges[i].source = FullGraph.edges[i].target

\* C30: in every graph response the two node counts of the stats add up to the
\* number of returned nodes, and total_links is the number of returned edges.
C30_StatsCountResult ==
    IsGraph =>
        /\ resp.stats.total_notes + resp.stats.total_tags = Len(resp.nodes)
        /\ resp.stats.total_links = Len(resp.edges)

\* A scoped response with notes, tags and edges of both kinds that leaves out a
\* part of the full graph.
C30_Witness ==
    /\ IsScoped
    /\ resp.stats.total_notes > 0 /\ resp.stats.total_tags > 0
    /\ \E k \in 1..Len(resp.edges) : resp.edges[k].type = "tag"
    /\ \E k \in 1..Len(resp.edges) : resp.edges[k].type = "link"
    /\ Len(resp.nodes) < Len(FullGraph.nodes)
    /\ Len(resp.edges) < Len(FullGraph.edges)

\* The Document nodes of a node list, and its link edges in their order.
NoteNodes(nodes) == {nodes[k] : k \in {i \in 1..Len(nodes) : nodes[i].type = "note"}}
LinkList(edges) == SelectSeq(edges, LAMBDA e : e.type = "link")

\* The response with no Tag node and no tag edge, and with the Document nodes and
\* the link edges of the response to the same request with the tag flag set.
SameButTags ==
    LET on == generate_graph(vault, [resp.request EXCEPT !.include_tags = TRUE])
    IN  /\ \A k \in 1..Len(resp.nodes) : resp.nodes[k].type # "tag"
        /\ \A k \in 1..Len(resp.edges) : resp.edges[k].type # "tag"
        /\ NoteNodes(resp.nodes) = NoteNodes(on.nodes)
        /\ resp.edges = LinkList(on.edges)

----------------------------------------------------------------------------
(***************************************************************************)
(* Claims about note creation.                                             *)
(***************************************************************************)
\* C26: a step that answers a note creation with an error (the folder lies in the
\* excluded vault) answers with status 403, makes no directory and writes no file.
NoteAnswered == resp.kind \in {"created", "error"}

\* The folder a note request writes to (lines 85-88).
AskedFolder(request) ==
    IF request.folder.some /\ request.folder.val # <<>>
    THEN PathJoin(OBSIDIAN_VAULT_PATH, request.folder.val)
    ELSE OBSIDIAN_VAULT_PATH

C26_ExcludedFolderRejected ==
    [][(resp = NoResp /\ NoteAnswered' /\ is_excluded_path(AskedFolder(resp'.request)))
          => /\ resp'.kind = "error"
             /\ resp'.status_code = 403
             /\ dirs' = dirs
             /\ vault' = vault]_vars

(***************************************************************************)
(* Notes are created in the vault and in a folder of it, also with an      *)
(* empty title, and the full graph is asked for in between.                *)
(***************************************************************************)
\* As Deliver; last keeps the request of the note that was created last.
DeliverCreated ==
    /\ resp # NoResp
    /\ resp' = NoResp
    /\ last' = IF resp.kind = "created"
               THEN [kind |-> "created", request |-> resp.request]
               ELSE last
    /\ UNCHANGED <<vault, dirs, call>>

CreateRequests ==
    [title : {<<>>, <<"A">>}, content : {BodyTwice},
     folder : {None, Some(<<"s">>)},
     tags : {None, Some(<<(<<"x">>), (<<"A">>), (<<"x">>)>>)}]

CreateGraphRequests ==
    [node : {None}, depth : {DEFAULT_DEPTH}, include_tags : BOOLEAN]

InitCreate ==
    /\ vault = <<>>
    /\ dirs \in {{}, {OBSIDIAN_VAULT_PATH}}
    /\ resp = NoResp
    /\ call = NoCall
    /\ last = NoLast

NextCreate ==
    \/ CreateNote(CreateRequests)
    \/ GenerateGraph(CreateGraphRequests)
    \/ DeliverCreated

SpecCreate == InitCreate /\ [][NextCreate]_vars

\* The full graph with tag nodes was asked for after a note was created.
AfterCreate ==
    IsGraph /\ ~RootGiven /\ resp.request.include_tags /\ last.kind = "created"

CreatedTags == IF last.request.tags.some THEN last.request.tags.val ELSE <<>>

CreatedRefs ==
    LET links == find_links(last.request.content)
    IN  [k \in 1..Len(links) |-> clean_link(links[k])]

\* The graph holds the created note with its tag edges and its link edges, each
\* as often as the request names the tag or the reference.
CreatedNoteShown(T) ==
    /\ HasNode(T, "note")
    /\ \A g \in Range(CreatedTags) :
          Count(resp.edges, Edge(T, g, "tag")) >= Count(CreatedTags, g)
    /\ \A t \in Range(CreatedRefs) :
          Count(resp.edges, Edge(T, t, "link")) >= Count(CreatedRefs, t)

\* C28: the full graph with tag nodes that is asked for after a note was created
\* with title T holds a node of type note with identifier T, a tag edge from T
\* for each tag of the request and a link edge from T for each reference of its
\* content.
C28_CreatedNoteInGraph ==
    AfterCreate => CreatedNoteShown(last.request.title)

----------------------------------------------------------------------------
(***************************************************************************)
(* get_vault_stats, lines 563-637. A file of a statistics vault has one    *)
(* more field, mtime, the time os.path.getmtime reports.                   *)
(***************************************************************************)
\* Largest number of files in a vault of the statistics specification.
MaxStatsFiles == 2

\* len(content.split()): the runs of characters that are not whitespace.
RECURSIVE CountWords(_, _, _)
CountWords(s, i, inWord) ==
    IF i > Len(s) THEN 0
    ELSE IF IsSpace(s[i]) THEN CountWords(s, i + 1, FALSE)
    ELSE (IF inWord THEN 0 ELSE 1) + CountWords(s, i + 1, TRUE)

\* Path(root).relative_to(OBSIDIAN_VAULT_PATH).as_posix()
folder_name(dir) ==
    IF dir = OBSIDIAN_VAULT_PATH THEN <<".">>
    ELSE SubSeq(dir, Len(OBSIDIAN_VAULT_PATH) + 2, Len(dir))

\* stats['folders'][folder_name] += 1 on a defaultdict(int)
count_folder(folders, name) ==
    [n \in DOMAIN folders \cup {name} |->
        (IF n \in DOMAIN folders THEN folders[n] ELSE 0) + (IF n = name THEN 1 ELSE 0)]

\* The cleaned targets of a list of references, as a set.
link_targets(links) == {clean_link(links[k]) : k \in 1..Len(links)}

RecentNote(f) ==
    [title |-> stem(f.file), path |-> file_path(f), modified |-> f.mtime]

\* The statistics before the first file.
EmptyStats ==
    [total_notes |-> 0, total_words |-> 0, total_links |-> 0, total_tags |-> {},
     folders |-> [n \in {} |-> 0], recent_notes |-> <<>>,
     all_notes |-> {}, linked_notes |-> {}]

\* Lines 589-621 for one file: the note is counted before the try block; a file
\* that cannot be read adds nothing more, one whose metadata cannot be parsed or
\* whose tags are not a list adds its words and its links only.
stat_file(a, f) ==
    LET counted == [a EXCEPT !.total_notes = @ + 1,
                             !.folders = count_folder(@, folder_name(f.dir)),
                             !.all_notes = @ \cup {stem(f.file)}]
        links == find_links(f.content)
        read == [counted EXCEPT !.total_words = @ + CountWords(f.content, 1, FALSE),
                                !.total_links = @ + Len(links),
                                !.linked_notes = @ \cup link_targets(links)]
    IN  IF f.st = "undecodable" THEN counted
        ELSE IF f.st = "badyaml" \/ f.tagsKind = "scalar" THEN read
        ELSE [read EXCEPT !.total_tags = @ \cup Range(metadata_tags(f)),
                          !.recent_notes = Append(@, RecentNote(f))]

RECURSIVE scan_stats(_, _, _)
scan_stats(v, i, a) ==
    IF i > Len(v) THEN a
    ELSE scan_stats(v, i + 1,
                    IF is_excluded_path(v[i].dir) \/ ~endswith_md(v[i].file)
                    THEN a
                    ELSE stat_file(a, v[i]))

\* list.sort(key=modified, reverse=True): stable, equal keys keep their order.
insert_recent(sorted, r) ==
    LET n == Cardinality({i \in 1..Len(sorted) : sorted[i].modified >= r.modified})
    IN  SubSeq(sorted, 1, n) \o <<r>> \o SubSeq(sorted, n + 1, Len(sorted))

RECURSIVE sort_recent(_, _, _)
sort_recent(notes, i, sorted) ==
    IF i > Len(notes) THEN sorted
    ELSE sort_recent(notes, i + 1, insert_recent(sorted, notes[i]))

\* stats['recent_notes'][:10]
RECENT_LIMIT == 10

\* The response; total_tags and orphan_notes are lists made of sets, in no order
\* the code chooses, and are sets here.
get_vault_stats(v) ==
    LET a == scan_stats(v, 1, EmptyStats)
    IN  [kind |-> "stats",
         total_notes |-> a.total_notes, total_words |-> a.total_words,
         total_links |-> a.total_links, total_tags |-> a.total_tags,
         folders |-> a.folders,
         recent_notes |-> take(sort_recent(a.recent_notes, 1, <<>>), RECENT_LIMIT),
         orphan_notes |-> a.all_notes \ a.linked_notes]

\* GET /api/stats
GetVaultStats ==
    /\ resp = NoResp
    /\ call = NoCall
    /\ dirs' = ensure_vault_exists(dirs)
    /\ resp' = get_vault_stats(vault)
    /\ UNCHANGED <<vault, call, last>>

(***************************************************************************)
(* Inputs of the statistics specification.                                 *)
(***************************************************************************)
MTIMES == {1, 2}

Stamped(f, m) ==
    [dir |-> f.dir, file |-> f.file, st |-> f.st, content |-> f.content,
     tagsKind |-> f.tagsKind, tags |-> f.tags, mtime |-> m]

StatsFiles ==
    {Stamped(f, m) :
        f \in {g \in BuildFiles : /\ g.file # MdFile(<<"C">>)
                                  /\ g.content \notin {BodyTwice, BodyOdd}},
        m \in MTIMES}

StatsVaults ==
    {v \in UNION {[1..n -> StatsFiles] : n \in 0..MaxStatsFiles} : WalkOrder(v)}

InitStats ==
    /\ vault \in StatsVaults
    /\ dirs \in {DirsOf(vault)} \cup (IF vault = <<>> THEN {{}} ELSE {})
    /\ resp = NoResp
    /\ call = NoCall
    /\ last = NoLast

NextStats ==
    \/ GetVaultStats
    \/ Deliver

SpecStats == InitStats /\ [][NextStats]_vars

----------------------------------------------------------------------------
(***************************************************************************)
(* Claims about the vault statistics.                                      *)
(***************************************************************************)
IsStats == resp.kind = "stats"

\* The files the statistics count, and those of them that were read.
Counted == {i \in 1..Len(vault) : Scanned(vault[i])}
Read == {i \in Counted : vault[i].st # "undecodable"}

\* The note holds a reference; a reference of some note names it.
HasOutgoing(name) ==
    \E i \in Read : stem(vault[i].file) = name /\ find_links(vault[i].content) # <<>>

HasIncoming(name) ==
    \E i \in Read : name \in link_targets(find_links(vault[i].content))

\* C25: the orphans of the statistics are the counted notes that hold no
\* reference and that no reference names.
C25_OrphansHaveNoLinks ==
    IsStats =>
        /\ \A name \in resp.orphan_notes : \E i \in Counted : stem(vault[i].file) = name
        /\ \A i \in Counted :
              LET name == stem(vault[i].file)
              IN  (name \in resp.orphan_notes)
                      <=> (~HasOutgoing(name) /\ ~HasIncoming(name))

====
